---- MODULE Spec2Model ----
(***************************************************************************)
(* Token + single-use nonce lifecycle of the entry access server.          *)
(*                                                                         *)
(*   StoreSpec  the nonce store (in-memory map under a mutex, or SQL       *)
(*              table) with concurrent direct callers, its janitor and     *)
(*              the clock;                                                 *)
(*   Spec       one email login attempt: POST /login, the OTP and link     *)
(*              handlers, the SSE notifier with its verify store, the      *)
(*              session cookies of two browsers, the entry page;           *)
(*   EntrySpec  the kiosk's cached entry token (QR poll) and its scans.    *)
(*                                                                         *)
(* Time is a counter of whole seconds (now).  Durations are scaled down:   *)
(* only their order matters to the code (token TTL < nonce TTL).           *)
(***************************************************************************)
EXTENDS Integers, FiniteSets, Sequences, TLC

\* ---------------------------------------------------------------- bounds
MaxTime == 4          \* the clock stops advancing here
MaxKeys == 1          \* nonce strings used by direct callers of the store
NumProcs == 2         \* concurrent callers of the store
MaxTTL == 1           \* largest ttl a direct caller passes to Put
MaxEntryTokens == 2   \* entry tokens that are ever issued
LinkTTL == 2          \* LINK_TTL, scaled
TokenTTL == 1         \* Cfg.TokenTTL, scaled
NonceSkew == 1        \* the margin added to the nonce TTL (ttl + 10), scaled
MaxSessions == 2      \* the cap of the count of sessions issued to one browser
MaxDevices == 1       \* device ids that register
MaxEntries == 2       \* rows of the entries table
EmailSendInterval == 2  \* email_send_interval, scaled

\* ---------------------------------------------------------------- values
Absent == 0 - 1                       \* "no entry" in a store map
Free == 0 - 1                         \* the mutex is not held
Leaked == 0 - 2                       \* the mutex is held by a call that returned
Procs == 1 .. NumProcs
Keys == 1 .. MaxKeys
EntryTokens == 1 .. MaxEntryTokens
EmptyID == 0                          \* RegisteredClaims.ID of a claim without one
LoginNonce == 1                       \* the jti shared by the tokens of the login attempt
EntryNonce(i) == LoginNonce + i       \* the jti of entry token i
MaxNonce == IF MaxKeys > LoginNonce + MaxEntryTokens THEN MaxKeys ELSE LoginNonce + MaxEntryTokens
Nonces == 0 .. MaxNonce
Backends == {"memory", "sql"}
Clients == {"scanner", "phone"}
Email == "alice"
OtherUser == "bob"                      \* the address of the login attempts; also the uid
DeviceIDs == 1 .. MaxDevices
Entries == 1 .. MaxEntries
IPs == {"A", "B"}
NoDevice == [ip |-> "none", status |-> "none"]
NoCookie == [uid |-> "none", jti |-> EmptyID, exp |-> Absent, renew |-> FALSE]

VARIABLES
    backend,      \* Cfg.NonceStore
    now,          \* time.Now(), whole seconds
    store,        \* main nonce store: nonce -> expiry, or Absent
    verifyStore,  \* emailLoginVerifyStore: nonce -> expiry, or Absent
    mu,           \* MemoryStore.mu of the main store: Free, Leaked, or the holder
    pc,           \* per direct caller: position inside a store call
    ret,          \* what the latest completed direct store call returned
    hist,         \* per nonce: successful Consume calls since the last Put (ghost)
    swept,        \* nonces a sweep removed since a direct caller last Put them (ghost)
    attempt,      \* the login attempt: exp of the token pair issued for it, or Absent
    consumedBy,   \* the path whose login() consumed the jti of the attempt (ghost)
    cookie,       \* per client: the auth_token cookie (a uid) or NoCookie
    minted,       \* clients that were given a session for the attempt (ghost)
    sse,          \* the GET /status stream of the attempt
    entryTokens,  \* entryTokens.tokens["entry1"]: an entry token id, or 0
    etok,         \* per entry token id: its exp, or Absent when not issued
    last,         \* the response of the latest handler
    granted,      \* entry token ids GET /entry/:token answered with 200 (ghost)
    sessions,     \* per client: how many sessions NewAuth issued to it (ghost)
    used,         \* entry token ids whose nonce a Consume removed (ghost)
    proof,        \* what was presented for the attempt: the right OTP, the link (ghost)
    mail,         \* the email provider: emailSentCache, its requests and cleanup tasks
    devices,      \* table devices: per device id its row, or NoDevice
    approved_devices  \* table approved_devices: per (device id, entry id) its row

vars == <<backend, now, store, verifyStore, mu, pc, ret, hist, swept, attempt, consumedBy,
          cookie, minted, sse, entryTokens, etok, last, granted, sessions,
          used, proof, mail, devices, approved_devices>>

devVars == <<devices, approved_devices>>
auxVars == <<granted, sessions, used, proof, mail, devVars>>

storeVars == <<store, mu, pc, ret, hist, swept>>
sysVars == <<verifyStore, attempt, consumedBy, cookie, minted, sse, entryTokens, etok, last,
            auxVars>>

\* ------------------------------------------------------------ nonce store
EmptyStore == [n \in Nonces |-> Absent]

Remove(st, n) == [st EXCEPT ![n] = Absent]

\* MemoryStore.Consume, the part under m.mu: returns (ok, err) and the map after.
MemoryStore_Consume(st, n, t) ==
    IF st[n] = Absent
    THEN [ok |-> FALSE, err |-> "NonceMissing", st |-> st]
    ELSE IF t > st[n]
         THEN [ok |-> FALSE, err |-> "NonceExpired", st |-> Remove(st, n)]
         ELSE [ok |-> TRUE, err |-> "nil", st |-> Remove(st, n)]

\* MemoryStore.Exists
MemoryStore_Exists(st, n, t) ==
    IF st[n] = Absent THEN FALSE ELSE ~(t > st[n])

\* MemoryStore.ExpireNonces, the loop under m.mu
MemoryStore_ExpireNonces(st, t) ==
    [n \in Nonces |-> IF st[n] # Absent /\ t > st[n] THEN Absent ELSE st[n]]

\* a DELETE reported as a hit whatever rowsAffected says (mutation of the below)
SQLProvider_ConsumeNonce_AnyRows(st, n) ==
    [exists |-> TRUE, st |-> Remove(st, n)]

\* SQLProvider.ConsumeNonce: DELETE FROM nonces WHERE nonce = ?; rowsAffected > 0
SQLProvider_ConsumeNonce(st, n) ==
    [exists |-> st[n] # Absent, st |-> Remove(st, n)]

\* SQLNonceStore.Consume
SQLNonceStore_Consume(st, n, t) ==
    LET r == SQLProvider_ConsumeNonce(st, n) IN
    IF ~r.exists
    THEN [ok |-> FALSE, err |-> "NonceMissing", st |-> r.st]
    ELSE [ok |-> TRUE, err |-> "nil", st |-> r.st]

\* SQLNonceStore.Exists: SELECT COUNT(1) ... WHERE nonce = ? AND expires_at > ?
SQLNonceStore_Exists(st, n, t) ==
    st[n] # Absent /\ st[n] > t

\* SQLNonceStore.ExpireNonces: DELETE FROM nonces WHERE expires_at <= ?
SQLNonceStore_ExpireNonces(st, t) ==
    [n \in Nonces |-> IF st[n] # Absent /\ st[n] <= t THEN Absent ELSE st[n]]

\* SQLNonceStore.Put: INSERT INTO nonces (nonce, expires_at); the primary key
\* rejects a second row for the same nonce.  No check of ttl.
SQLNonceStore_Put(st, n, ttl, t) ==
    IF st[n] # Absent
    THEN [err |-> "failed to create nonce", st |-> st]
    ELSE [err |-> "nil", st |-> [st EXCEPT ![n] = t + ttl]]

\* MemoryStore.Put after the ttl check: m.entries[nonce] = time.Now().Add(ttl)
MemoryStore_Put(st, n, ttl, t) ==
    [err |-> "nil", st |-> [st EXCEPT ![n] = t + ttl]]

\* NonceStoreInterface.Consume on the configured backend, as one atomic call
Consume(b, st, n, t) ==
    IF b = "memory" THEN MemoryStore_Consume(st, n, t) ELSE SQLNonceStore_Consume(st, n, t)

\* ---------------------------------------------- direct callers of the store
\* A caller is idle, or inside MemoryStore.Consume: waiting for m.mu ("lock"),
\* or holding it after the map lookup ("found").  The other MemoryStore
\* methods take the lock, run and release it in one step; SQL calls are
\* single statements.
Idle == [st |-> "idle", n |-> 0, lexp |-> Absent, cont |-> FALSE]

NoRet == [op |-> "none", n |-> 0, ok |-> FALSE, err |-> "nil",
          contended |-> FALSE, live |-> FALSE, elapsed |-> FALSE, badTtl |-> FALSE]

Min(a, b) == IF a < b THEN a ELSE b

\* ghost: a Put of n succeeded
HistPut(h, n) == [h EXCEPT ![n] = 0]

\* ghost: a Consume of n returned (ok, _)
HistConsume(h, n, ok) == [h EXCEPT ![n] = Min(2, @ + (IF ok THEN 1 ELSE 0))]

\* what a completed Consume reports: its result, and what it found (ghost)
ConsumeRet(n, r, e, t, cont) ==
    [op |-> "Consume", n |-> n, ok |-> r.ok, err |-> r.err, contended |-> cont,
     live |-> e # Absent /\ t < e, elapsed |-> e # Absent /\ t > e]

\* what a completed Exists reports (ghost fields as for Consume)
ExistsRet(n, b, e, t) ==
    [op |-> "Exists", n |-> n, ok |-> b, err |-> "nil", contended |-> FALSE,
     live |-> e # Absent /\ t < e, elapsed |-> e # Absent /\ t > e]

\* a lock that never blocks
MutexLock_NoExclusion(p) ==
    mu' = p

\* m.mu.Lock(): blocks while the mutex is held
MutexLock(p) ==
    /\ mu = Free
    /\ mu' = p

\* m.mu.Unlock(), deferred: releases the mutex if this caller holds it
MutexUnlock(p) ==
    mu' = IF mu = p THEN Free ELSE mu

\* MemoryStore.Put: Lock; the ttl check returns without Unlock (the defer is
\* registered after it); otherwise the entry is written and the lock released.
MemPut(p, n, ttl) ==
    /\ backend = "memory"
    /\ pc[p].st = "idle"
    /\ mu = Free
    /\ IF ttl <= 0
       THEN /\ mu' = Leaked
            /\ ret' = [NoRet EXCEPT !.op = "Put", !.n = n, !.badTtl = (ttl <= 0), !.err = "ttl must be > 0"]
            /\ UNCHANGED <<store, hist, swept>>
       ELSE /\ mu' = Free
            /\ store' = MemoryStore_Put(store, n, ttl, now).st
            /\ hist' = HistPut(hist, n)
            /\ swept' = swept \ {n}
            /\ ret' = [NoRet EXCEPT !.op = "Put", !.n = n, !.badTtl = (ttl <= 0), !.ok = TRUE]
    /\ UNCHANGED <<backend, now, pc, sysVars>>

\* A caller enters MemoryStore.Consume and reaches m.mu.Lock().
MemConsumeCall(p, n) ==
    /\ backend = "memory"
    /\ pc[p].st = "idle"
    /\ pc' = [pc EXCEPT ![p] = [Idle EXCEPT !.st = "lock", !.n = n]]
    /\ UNCHANGED <<backend, now, store, mu, ret, hist, swept, sysVars>>

\* MemoryStore.Consume: m.mu.Lock() succeeds, then exp, ok := m.entries[nonce]
MemConsumeRead(p) ==
    /\ pc[p].st = "lock"
    /\ MutexLock(p)
    /\ pc' = [q \in Procs |->
                IF q = p
                THEN [pc[p] EXCEPT !.st = "found", !.lexp = store[pc[p].n]]
                ELSE IF pc[q].st = "lock" /\ pc[q].n = pc[p].n
                     THEN [pc[q] EXCEPT !.cont = TRUE]
                     ELSE pc[q]]
    /\ UNCHANGED <<backend, now, store, ret, hist, swept, sysVars>>

\* MemoryStore.Consume after the lookup: the three returns, each followed by
\* the deferred Unlock
MemConsumeFinish(p) ==
    /\ pc[p].st = "found"
    /\ LET n == pc[p].n
           e == pc[p].lexp
           r == MemoryStore_Consume([store EXCEPT ![n] = e], n, now)
       IN /\ store' = IF e = Absent THEN store ELSE Remove(store, n)
          /\ ret' = ConsumeRet(n, r, e, now, pc[p].cont)
          /\ hist' = HistConsume(hist, n, r.ok)
          /\ UNCHANGED swept
    /\ MutexUnlock(p)
    /\ pc' = [pc EXCEPT ![p] = Idle]
    /\ UNCHANGED <<backend, now, sysVars>>

\* MemoryStore.Exists: RLock, lookup, RUnlock
MemExists(p, n) ==
    /\ backend = "memory"
    /\ pc[p].st = "idle"
    /\ mu = Free
    /\ ret' = ExistsRet(n, MemoryStore_Exists(store, n, now), store[n], now)
    /\ UNCHANGED <<backend, now, store, mu, pc, hist, swept, sysVars>>

\* ghost: the nonces a sweep from st to st2 removed
Swept(st, st2) == {n \in Nonces : st[n] # Absent /\ st2[n] = Absent}

\* janitor of the main store, in-memory.  MemoryStore.ExpireNonces reads the
\* clock (tnow), then waits for the lock, sweeps with tnow and unlocks; any
\* number of seconds may pass between the clock read and the lock.
MemExpire ==
    /\ backend = "memory"
    /\ mu = Free
    /\ \E tnow \in 0 .. now : store' = MemoryStore_ExpireNonces(store, tnow)
    /\ store' # store
    /\ swept' = swept \cup Swept(store, store')
    /\ UNCHANGED <<backend, now, mu, pc, ret, hist, sysVars>>

\* SQLNonceStore.Put: no ttl check, one INSERT
SqlPut(p, n, ttl) ==
    /\ backend = "sql"
    /\ LET r == SQLNonceStore_Put(store, n, ttl, now) IN
       /\ store' = r.st
       /\ hist' = IF r.err = "nil" THEN HistPut(hist, n) ELSE hist
       /\ swept' = IF r.err = "nil" THEN swept \ {n} ELSE swept
       /\ ret' = [NoRet EXCEPT !.op = "Put", !.n = n, !.badTtl = (ttl <= 0), !.ok = (r.err = "nil"), !.err = r.err]
    /\ UNCHANGED <<backend, now, mu, pc, sysVars>>

\* SQLNonceStore.Consume: one DELETE
SqlConsume(p, n) ==
    /\ backend = "sql"
    /\ LET r == SQLNonceStore_Consume(store, n, now) IN
       /\ store' = r.st
       /\ hist' = HistConsume(hist, n, r.ok)
       /\ UNCHANGED swept
       /\ ret' = ConsumeRet(n, r, store[n], now, FALSE)
    /\ UNCHANGED <<backend, now, mu, pc, sysVars>>

\* SQLNonceStore.Exists: one SELECT
SqlExists(p, n) ==
    /\ backend = "sql"
    /\ ret' = ExistsRet(n, SQLNonceStore_Exists(store, n, now), store[n], now)
    /\ UNCHANGED <<backend, now, store, mu, pc, hist, swept, sysVars>>

\* janitor of the main store, SQL: one DELETE per tick
SqlExpire ==
    /\ backend = "sql"
    /\ store' = SQLNonceStore_ExpireNonces(store, now)
    /\ store' # store
    /\ swept' = swept \cup Swept(store, store')
    /\ UNCHANGED <<backend, now, mu, pc, ret, hist, sysVars>>

\* ---------------------------------------------------------- token service
NoExp == 0 - 1                        \* RegisteredClaims.ExpiresAt == nil

JWT_AUDIENCE_EMAIL_LINK == "email_link"
JWT_AUDIENCE_EMAIL_OTP == "email_otp"
JWT_AUDIENCE_EMAIL_LOGIN == "email_login"
Audiences == {JWT_AUDIENCE_EMAIL_LINK, JWT_AUDIENCE_EMAIL_OTP, JWT_AUDIENCE_EMAIL_LOGIN}

\* The tokens signed for login attempt: the otp and link claims of
\* POST /login, and the login claim GET /status derives from the otp claim.
\* All three carry the base claim's ID and ExpiresAt.
AccessToken(aud) ==
    [aud |-> aud, jti |-> LoginNonce, exp |-> attempt, email |-> Email,
     auth |-> (aud = JWT_AUDIENCE_EMAIL_LOGIN)]

\* The entry token with id i, as signed by genEntryToken
EntryToken(i) == [aud |-> "none", jti |-> EntryNonce(i), exp |-> etok[i]]

\* NewAuthClaims + GenerateJWT: only uid is set; no ID, no ExpiresAt
NewAuthClaims(uid) == [uid |-> uid, jti |-> EmptyID, exp |-> NoExp, renew |-> FALSE]

\* decodeJWT: the validator of jwt.ParseWithClaims on a token signed by this
\* server: exp (when present) must be in the future, and with WithAudience
\* the token's aud must be one of the expected ones.
decodeJWT(tok, auds, t) ==
    IF tok.exp # NoExp /\ ~(t < tok.exp) THEN "TokenExpired"
    ELSE IF auds # {} /\ tok.aud \notin auds THEN "InvalidAudience"
    ELSE "nil"

\* ConsumeClaimNonce: the store's error wins over ErrInvalidNonce
ConsumeClaimNonce(b, st, jti, t) ==
    LET r == Consume(b, st, jti, t) IN
    IF r.err # "nil" \/ ~r.ok
    THEN [err |-> IF r.err # "nil" THEN r.err ELSE "ErrInvalidNonce", st |-> r.st]
    ELSE [err |-> "nil", st |-> r.st]

\* a decoder that consumes the claim's nonce, as DecodeEntryJWT does
DecodeAccessCodeJWT_Consuming(tok, auds, b, st, t) ==
    LET e == decodeJWT(tok, auds, t) IN
    IF e # "nil" THEN [err |-> e, st |-> st]
    ELSE ConsumeClaimNonce(b, st, tok.jti, t)

\* DecodeAccessCodeJWT: decodeJWT only; the nonce is left to the caller
DecodeAccessCodeJWT(tok, auds, b, st, t) ==
    [err |-> decodeJWT(tok, auds, t), st |-> st]

\* DecodeAuthJWT: decodeJWT only
DecodeAuthJWT(tok, b, st, t) ==
    [err |-> decodeJWT(tok, {}, t), st |-> st]

\* a decoder that validates the token and leaves its nonce in the store
DecodeEntryJWT_NoConsume(tok, b, st, t) ==
    [err |-> decodeJWT(tok, {}, t), st |-> st]

\* DecodeEntryJWT: decodeJWT, then NonceStore.Consume of the claim's ID
DecodeEntryJWT(tok, b, st, t) ==
    LET e == decodeJWT(tok, {}, t) IN
    IF e # "nil" THEN [err |-> e, st |-> st]
    ELSE ConsumeClaimNonce(b, st, tok.jti, t)

\* verifyAuth on a request carrying cookie ck: the cookie must be there and
\* decode; the nonce store is not asked
verifyAuth(ck, b, st, t) ==
    IF ck = NoCookie THEN "http: named cookie not present"
    ELSE DecodeAuthJWT(ck, b, st, t).err

\* Nonce(ttl): Store.Put of a fresh nonce; a Put error is logged and ignored
Nonce(b, st, n, ttl, t) ==
    IF b = "memory"
    THEN (IF ttl <= 0 THEN st ELSE MemoryStore_Put(st, n, ttl, t).st)
    ELSE SQLNonceStore_Put(st, n, ttl, t).st

\* a claim whose nonce lives shorter than the token (mutation of the below)
mustCreateRegisteredClaim_ShortNonce(b, st, n, ttl, t) ==
    [st |-> Nonce(b, st, n, ttl - NonceSkew, t), exp |-> t + ttl]

\* mustCreateRegisteredClaim(ttl): the nonce lives ttl + skew, the token ttl
mustCreateRegisteredClaim(b, st, n, ttl, t) ==
    [st |-> Nonce(b, st, n, ttl + NonceSkew, t), exp |-> t + ttl]

\* --------------------------------------------------------------- sessions
\* renewAuth(c, userId, true), as login calls it, on a request carrying
\* cookie ck.  With a cookie that decodes, oldClaims.ExpiresAt.Time is read
\* first: a nil ExpiresAt panics.  Otherwise a uid mismatch returns early, and
\* else the old nonce is consumed and NewAuth sets a new cookie.  Returns the
\* cookie after the call, the store after, and whether a session was issued.
renewAuth(ck, userId, b, st, t) ==
    IF ck # NoCookie /\ DecodeAuthJWT(ck, b, st, t).err = "nil"
    THEN IF ck.exp = NoExp
         THEN [panic |-> TRUE, cookie |-> ck, st |-> st, issued |-> FALSE]
         ELSE IF ck.uid # userId
              THEN [panic |-> FALSE, cookie |-> ck, st |-> st, issued |-> FALSE]
              ELSE [panic |-> FALSE, cookie |-> NewAuthClaims(userId),
                    st |-> Consume(b, st, ck.jti, t).st, issued |-> TRUE]
    ELSE [panic |-> FALSE, cookie |-> NewAuthClaims(userId), st |-> st, issued |-> TRUE]

\* the request's cookie decodes to a uid other than userId
UidMismatch(ck, userId) == ck # NoCookie /\ ck.uid # userId

\* login(c, claim): renewAuth(c, claim.Email, true), then ConsumeClaimNonce
\* whose result is dropped
login(ck, claim, b, st, t) ==
    LET r == renewAuth(ck, claim.email, b, st, t) IN
    IF r.panic
    THEN [panic |-> TRUE, cookie |-> ck, st |-> st, issued |-> FALSE, cerr |-> "none"]
    ELSE LET k == ConsumeClaimNonce(b, r.st, claim.jti, t) IN
         [panic |-> FALSE, cookie |-> r.cookie, st |-> k.st, issued |-> r.issued, cerr |-> k.err]

\* ------------------------------------------------------------ verify store
\* emailLoginVerifyStore = NewStore(Cfg): a MemoryStore, or an SQLNonceStore
\* whose storage provider was never set, so that every call on it panics.
VerifyStore_Put(b, st, n, ttl, t) ==
    IF b = "sql" THEN [panic |-> TRUE, st |-> st]
    ELSE IF ttl <= 0 THEN [panic |-> FALSE, st |-> st]
    ELSE [panic |-> FALSE, st |-> MemoryStore_Put(st, n, ttl, t).st]

\* emailLoginVerifyStore.Consume
VerifyStore_Consume(b, st, n, t) ==
    IF b = "sql" THEN [panic |-> TRUE, ok |-> FALSE, err |-> "nil", st |-> st]
    ELSE LET r == MemoryStore_Consume(st, n, t) IN
         [panic |-> FALSE, ok |-> r.ok, err |-> r.err, st |-> r.st]

\* ------------------------------------------------------- device provisioning
DeviceStatusPending == "pending"
DeviceStatusApproved == "approved"
DeviceStatusRejected == "rejected"

\* SQLProvider.CreateDevice: INSERT INTO devices (device_id, client_ip, ..., status)
SQLProvider_CreateDevice(devs, d, ip, status) ==
    [devs EXCEPT ![d] = [ip |-> ip, status |-> status]]

\* SQLProvider.UpdateDeviceStatus: UPDATE devices SET status = ? WHERE device_id = ?
SQLProvider_UpdateDeviceStatus(devs, d, status) ==
    IF devs[d] = NoDevice
    THEN [err |-> "device not found", devs |-> devs]
    ELSE [err |-> "nil", devs |-> [devs EXCEPT ![d].status = status]]

\* SQLProvider.CreateApprovedDevice: INSERT INTO approved_devices; the table's
\* UNIQUE(device_id, entry_id) rejects a second row for the pair, revoked or not
SQLProvider_CreateApprovedDevice(appr, d, e) ==
    IF appr[d][e] # "none"
    THEN [err |-> "failed to create approved device", appr |-> appr]
    ELSE [err |-> "nil", appr |-> [appr EXCEPT ![d][e] = "active"]]

\* SQLProvider.GetApprovedDevice: SELECT ... WHERE ... AND revoked_at IS NULL
SQLProvider_GetApprovedDevice(appr, d, e) ==
    appr[d][e] = "active"

\* SQLProvider.RevokeApprovedDevice: UPDATE ... SET revoked_at = ? WHERE ...
\* AND revoked_at IS NULL
SQLProvider_RevokeApprovedDevice(appr, d, e) ==
    IF appr[d][e] # "active"
    THEN [err |-> "approved device not found", appr |-> appr]
    ELSE [err |-> "nil", appr |-> [appr EXCEPT ![d][e] = "revoked"]]

\* a lookup that rebinds a known device to the address of the request
getProvisioning_Rebind(devs, d, ip) ==
    LET nd == SQLProvider_CreateDevice(devs, d, ip,
                  IF devs[d] = NoDevice THEN DeviceStatusPending ELSE devs[d].status)
    IN [err |-> IF devs[d] = NoDevice THEN "ErrDevicePendingApproval" ELSE "nil",
        dev |-> nd[d], devs |-> nd]

\* getProvisioning(c, deviceID) for a request from address ip: an unknown
\* device is created pending with that address
getProvisioning(devs, d, ip) ==
    IF devs[d] = NoDevice
    THEN LET nd == SQLProvider_CreateDevice(devs, d, ip, DeviceStatusPending) IN
         [err |-> "ErrDevicePendingApproval", dev |-> nd[d], devs |-> nd]
    ELSE IF devs[d].status \in {DeviceStatusApproved, DeviceStatusPending}
         THEN [err |-> "nil", dev |-> devs[d], devs |-> devs]
         ELSE IF devs[d].status = DeviceStatusRejected
              THEN [err |-> "ErrDeviceRejected", dev |-> devs[d], devs |-> devs]
              ELSE [err |-> "ErrDeviceStatusUnknown", dev |-> NoDevice, devs |-> devs]

\* GetErrorStatus of the errors POST /register aborts with
GetErrorStatus(err) ==
    IF err = "ErrDevicePendingApproval" THEN 202
    ELSE IF err \in {"ErrDeviceRejected", "ErrClientIPMismatch"} THEN 403
    ELSE 500

\* the stop code of GetErrorInfo
StopCode(err) ==
    IF err = "ErrDevicePendingApproval" THEN "DEVICE_PENDING"
    ELSE IF err = "ErrDeviceRejected" THEN "DEVICE_REJECTED"
    ELSE IF err = "ErrClientIPMismatch" THEN "IP_MISMATCH"
    ELSE "none"

\* the entry getEntryToken("entry1") of GET /entry/qr signs tokens for
Entry1 == 1

\* checkProvisioning(c): "Provisioning not implemented yet!"; return nil, true
checkProvisioning(d) == [err |-> "nil", ok |-> TRUE]

\* --------------------------------------------------------------- handlers
\* one more session issued to client c (the count saturates at MaxSessions)
Issue(ss, c) == [ss EXCEPT ![c] = Min(@ + 1, MaxSessions)]

NoLast == [op |-> "none", aud |-> "none", status |-> 0, err |-> "nil",
           dec |-> "none", decConsumed |-> FALSE, cerr |-> "none", used |-> "none",
           session |-> FALSE, marker |-> FALSE, tok |-> 0, prev |-> 0, hadLive |-> FALSE,
           replay |-> FALSE, had |-> FALSE, rotated |-> FALSE,
           dev |-> 0, entry |-> 0, ip |-> "none", before |-> NoDevice,
           listed |-> FALSE, repeat |-> FALSE, afterWrong |-> FALSE,
           mismatch |-> FALSE, old |-> NoCookie, who |-> "none"]

NoSse == [st |-> "idle", ticked |-> FALSE, url |-> FALSE, clicked |-> Absent, gone |-> FALSE]

Issued == attempt # Absent

\* the entry token id the next genEntryToken signs
NextEntryToken == CHOOSE i \in EntryTokens : etok[i] = Absent /\ \A k \in 1 .. i - 1 : etok[k] # Absent

CanIssueEntryToken == \E i \in EntryTokens : etok[i] = Absent

\* nothing was done yet with the tokens of the attempt
Untouched ==
    /\ consumedBy = "none" /\ sse = NoSse /\ verifyStore = EmptyStore /\ minted = {}
    /\ \A c \in Clients : cookie[c] = NoCookie
    /\ \A i \in EntryTokens : etok[i] = Absent

\* POST /auth/email/login for a listed address: the base claim (nonce stored
\* for LINK_TTL + skew), the otp and link tokens, the email, 200 {otpclaim}.
\* The handler keeps no record of earlier mails.  The user may ask again
\* before using the first mail; the tokens of the earlier mail then leave the
\* model, their nonce with them.
PostLogin ==
    /\ ~Issued \/ Untouched
    /\ proof' = {}
    /\ LET rc == mustCreateRegisteredClaim(backend, Remove(store, LoginNonce), LoginNonce,
                                           LinkTTL, now) IN
       /\ store' = rc.st
       /\ attempt' = rc.exp
    /\ last' = [NoLast EXCEPT !.op = "login", !.status = 200,
                      !.repeat = (Issued /\ now - (attempt - LinkTTL) < EmailSendInterval)]
    /\ UNCHANGED <<backend, now, verifyStore, mu, pc, ret, hist, swept, consumedBy, cookie, minted,
                   sse, entryTokens, etok, granted, sessions, used, mail, devVars>>

\* POST /auth/email/verify {otp, otpclaim} by client c, with a token of
\* otp token of the attempt and an otp that matches (otpOK) or not
PostVerify(c, otpOK) ==
    /\ Issued
    /\ proof' = IF /\ otpOK
                   /\ DecodeAccessCodeJWT(AccessToken(JWT_AUDIENCE_EMAIL_OTP),
                                          {JWT_AUDIENCE_EMAIL_OTP}, backend, store, now).err = "nil"
                THEN proof \cup {"otp"} ELSE proof
    /\ LET aud == JWT_AUDIENCE_EMAIL_OTP
           claim == AccessToken(aud)
           d == DecodeAccessCodeJWT(claim, {JWT_AUDIENCE_EMAIL_OTP}, backend, store, now)
           base == [NoLast EXCEPT !.op = "verifyOtp", !.aud = aud,
                                  !.afterWrong = (last.op = "verifyOtp" /\ last.err = "INVALID_OTP"),
                                  !.dec = "access", !.decConsumed = (d.st # store),
                                  !.used = consumedBy]
       IN IF d.err # "nil"
          THEN /\ last' = [base EXCEPT !.status = 400,
                             !.err = IF d.err = "ErrInvalidNonce" THEN "VERIFY_TOKEN_USED"
                                     ELSE "DECODE_FAILED"]
               /\ store' = d.st
               /\ UNCHANGED <<cookie, minted, sessions, consumedBy>>
          ELSE IF ~otpOK
          THEN /\ last' = [base EXCEPT !.status = 400, !.err = "INVALID_OTP"]
               /\ store' = d.st
               /\ UNCHANGED <<cookie, minted, sessions, consumedBy>>
          ELSE LET l == login(cookie[c], claim, backend, d.st, now)
                   lbase == [base EXCEPT !.mismatch = UidMismatch(cookie[c], claim.email),
                                         !.who = c]
               IN
               IF l.panic
               THEN /\ last' = [lbase EXCEPT !.status = 500, !.err = "PANIC"]
                    /\ store' = d.st
                    /\ UNCHANGED <<cookie, minted, sessions, consumedBy>>
               ELSE /\ last' = [lbase EXCEPT !.status = 200, !.cerr = l.cerr, !.session = l.issued]
                    /\ store' = l.st
                    /\ cookie' = [cookie EXCEPT ![c] = l.cookie]
                    /\ minted' = IF l.issued THEN minted \cup {c} ELSE minted
                    /\ sessions' = IF l.issued THEN Issue(sessions, c) ELSE sessions
                    /\ consumedBy' = IF l.cerr = "nil" THEN "otp" ELSE consumedBy
    /\ UNCHANGED <<backend, now, verifyStore, mu, pc, ret, hist, swept, attempt, sse, entryTokens, etok,
                   granted, devVars,
                   used, mail>>

\* GET /auth/email/verify/:token by client c with the link token or the
\* login token of the attempt (or, wrongly, the otp token)
GetVerifyToken(c, aud) ==
    /\ Issued
    /\ aud \in Audiences
    /\ aud = JWT_AUDIENCE_EMAIL_LOGIN => sse.url
    /\ proof' = IF /\ aud = JWT_AUDIENCE_EMAIL_LINK
                   /\ DecodeAccessCodeJWT(AccessToken(aud),
                                          {JWT_AUDIENCE_EMAIL_LINK, JWT_AUDIENCE_EMAIL_LOGIN},
                                          backend, store, now).err = "nil"
                THEN proof \cup {"link"} ELSE proof
    /\ LET claim == AccessToken(aud)
           d == DecodeAccessCodeJWT(claim, {JWT_AUDIENCE_EMAIL_LINK, JWT_AUDIENCE_EMAIL_LOGIN},
                                    backend, store, now)
           base == [NoLast EXCEPT !.op = "verifyLink", !.aud = aud,
                                  !.dec = "access", !.decConsumed = (d.st # store),
                                  !.used = consumedBy]
       IN IF d.err # "nil"
          THEN /\ last' = [base EXCEPT !.status = 302,
                             !.err = IF d.err = "ErrInvalidNonce" THEN "VERIFY_TOKEN_USED"
                                     ELSE "VERIFY_TOKEN_EXPIRED"]
               /\ store' = d.st
               /\ UNCHANGED <<verifyStore, cookie, minted, sessions, consumedBy, sse, etok>>
          ELSE IF claim.auth
          THEN LET l == login(cookie[c], claim, backend, d.st, now) IN
               IF l.panic
               THEN /\ last' = [base EXCEPT !.status = 500, !.err = "PANIC"]
                    /\ store' = d.st
                    /\ UNCHANGED <<verifyStore, cookie, minted, sessions, consumedBy, sse, etok>>
               ELSE \* SuccessUrl -> genEntryToken -> NewEntryClaim
                    /\ CanIssueEntryToken
                    /\ LET i == NextEntryToken
                           rc == mustCreateRegisteredClaim(backend, l.st, EntryNonce(i), TokenTTL, now)
                       IN /\ store' = rc.st
                          /\ etok' = [etok EXCEPT ![i] = rc.exp]
                          /\ last' = [base EXCEPT !.status = 302, !.cerr = l.cerr,
                                                  !.session = l.issued, !.tok = i]
                    /\ cookie' = [cookie EXCEPT ![c] = l.cookie]
                    /\ minted' = IF l.issued THEN minted \cup {c} ELSE minted
                    /\ sessions' = IF l.issued THEN Issue(sessions, c) ELSE sessions
                    /\ consumedBy' = IF l.cerr = "nil" THEN "handoff" ELSE consumedBy
                    /\ UNCHANGED <<verifyStore, sse>>
          ELSE LET ttl == claim.exp - now
                   v == VerifyStore_Put(backend, verifyStore, claim.jti, ttl, now)
               IN IF v.panic
                  THEN /\ last' = [base EXCEPT !.status = 500, !.err = "PANIC"]
                       /\ sse' = [sse EXCEPT !.clicked = IF @ = Absent /\ sse.st = "open"
                                                            THEN now ELSE @]
                       /\ store' = d.st
                       /\ UNCHANGED <<verifyStore, cookie, minted, sessions, consumedBy, etok>>
                  ELSE /\ last' = [base EXCEPT !.status = 200, !.marker = (v.st[claim.jti] # Absent)]
                       /\ verifyStore' = v.st
                       /\ sse' = [sse EXCEPT !.clicked = IF @ = Absent /\ sse.st = "open"
                                                            THEN now ELSE @]
                       /\ store' = d.st
                       /\ UNCHANGED <<cookie, minted, sessions, consumedBy, etok>>
    /\ UNCHANGED <<backend, now, mu, pc, ret, hist, swept, attempt, entryTokens, granted, devVars,
                   used, mail>>

\* GET /auth/email/status?token=<otp token of the attempt>: headers, decode,
\* the login token and its URL, then the ticker loop starts
SseOpen ==
    /\ Issued
    /\ sse.st = "idle"
    /\ LET claim == AccessToken(JWT_AUDIENCE_EMAIL_OTP)
           d == DecodeAccessCodeJWT(claim, {JWT_AUDIENCE_EMAIL_OTP}, backend, store, now)
           base == [NoLast EXCEPT !.op = "sseOpen", !.aud = JWT_AUDIENCE_EMAIL_OTP,
                                  !.status = 200, !.dec = "access",
                                  !.decConsumed = (d.st # store), !.used = consumedBy]
       IN /\ store' = d.st
          /\ IF d.err # "nil"
             THEN /\ sse' = [sse EXCEPT !.st = "error", !.clicked = Absent]
                  /\ last' = [base EXCEPT !.err = "error"]
             ELSE /\ sse' = [sse EXCEPT !.st = "open", !.ticked = TRUE, !.clicked = Absent]
                  /\ last' = base
    /\ UNCHANGED <<backend, now, verifyStore, mu, pc, ret, hist, swept, attempt, consumedBy, cookie,
                   minted, entryTokens, etok, auxVars>>

\* a stream that confirms whatever the verify-store says (mutation of the below)
SseFrame_AlwaysConfirmed(r) ==
    "confirmed"

\* the frame the ticker case writes: the switch compares err with freshly
\* allocated &NonceMissingError{} / &NonceExpiredError{} pointers, so every
\* error takes the default branch
SseFrame(r) ==
    IF r.ok /\ r.err = "nil" THEN "confirmed" ELSE "pending"

\* GET /auth/email/status, case <-ticker.C: taken when the ticker's channel
\* is ready, also when clientGone is ready too (select picks among the ready
\* cases at random)
SseTick ==
    /\ sse.st = "open"
    /\ ~sse.ticked
    /\ LET r == VerifyStore_Consume(backend, verifyStore, LoginNonce, now)
           base == [NoLast EXCEPT !.op = "sseTick", !.status = 200, !.used = consumedBy,
                                  !.hadLive = (store[LoginNonce] # Absent)]
       IN IF r.panic
          THEN /\ sse' = [sse EXCEPT !.st = "aborted", !.ticked = TRUE]
               /\ last' = [base EXCEPT !.err = "PANIC"]
               /\ UNCHANGED verifyStore
          ELSE /\ verifyStore' = r.st
               /\ last' = [base EXCEPT !.err = SseFrame(r)]
               /\ sse' = [sse EXCEPT !.ticked = TRUE,
                                     !.st = IF SseFrame(r) \in {"confirmed", "expired"}
                                               THEN SseFrame(r) ELSE @,
                                     !.url = @ \/ SseFrame(r) = "confirmed"]
    /\ UNCHANGED <<backend, now, store, mu, pc, ret, hist, swept, attempt, consumedBy, cookie, minted,
                   entryTokens, etok, auxVars>>

\* the browser closes the stream: net/http cancels the request's context,
\* which closes the channel clientGone the loop selects on
SseClientGone ==
    /\ sse.st = "open"
    /\ ~sse.gone
    /\ sse' = [sse EXCEPT !.gone = TRUE]
    /\ UNCHANGED <<backend, now, store, verifyStore, mu, pc, ret, hist, swept, attempt, consumedBy,
                   cookie, minted, entryTokens, etok, last, auxVars>>

\* GET /auth/email/status, case <-clientGone: the client went earlier, or
\* goes now while the loop waits in its select
SseGone ==
    /\ sse.st = "open"
    /\ sse' = [sse EXCEPT !.st = "gone", !.gone = TRUE]
    /\ last' = [NoLast EXCEPT !.op = "sseGone"]
    /\ UNCHANGED <<backend, now, store, verifyStore, mu, pc, ret, hist, swept, attempt, consumedBy,
                   cookie, minted, entryTokens, etok, auxVars>>

\* getEntryToken("entry1") under entryTokens.Lock, as called by GET /entry/qr.json
getEntryToken(cached, b, st, t) ==
    IF cached = 0
    THEN [err |-> "nil", create |-> TRUE, st |-> st]
    ELSE LET d == DecodeEntryJWT(EntryToken(cached), b, st, t) IN
         IF d.err # "nil"
         THEN [err |-> "invalid token payload", create |-> FALSE, st |-> d.st]
         ELSE [err |-> "nil", create |-> t > etok[cached], st |-> d.st]

\* GET /entry/qr.json?cb=... by the kiosk with device id d: checkProvisioning,
\* then getEntryToken("entry1")
GetQrJson(d) ==
    /\ used' = IF /\ checkProvisioning(d).err = "nil"
                  /\ entryTokens # 0
                  /\ DecodeEntryJWT(EntryToken(entryTokens), backend, store, now).err = "nil"
               THEN used \cup {entryTokens} ELSE used
    /\ LET g == getEntryToken(entryTokens, backend, store, now)
           base == [NoLast EXCEPT !.op = "qr", !.prev = entryTokens, !.dev = d,
                         !.hadLive = (entryTokens # 0 /\ now < etok[entryTokens]),
                         !.dec = IF entryTokens # 0 THEN "entry" ELSE "none",
                         !.decConsumed = (g.st # store)]
       IN IF checkProvisioning(d).err # "nil"
          THEN /\ last' = [NoLast EXCEPT !.op = "qr", !.dev = d, !.status = 403]
               /\ UNCHANGED <<store, entryTokens, etok>>
          ELSE IF g.err # "nil"
          THEN /\ last' = [base EXCEPT !.status = 500, !.err = g.err]
               /\ store' = g.st
               /\ UNCHANGED <<entryTokens, etok>>
          ELSE IF g.create
          THEN /\ CanIssueEntryToken
               /\ LET i == NextEntryToken
                      rc == mustCreateRegisteredClaim(backend, g.st, EntryNonce(i), TokenTTL, now)
                  IN /\ store' = rc.st
                     /\ etok' = [etok EXCEPT ![i] = rc.exp]
                     /\ entryTokens' = i
                     /\ last' = [base EXCEPT !.status = 200, !.tok = i]
          ELSE /\ last' = [base EXCEPT !.status = 200, !.tok = entryTokens]
               /\ store' = g.st
               /\ UNCHANGED <<entryTokens, etok>>
    /\ UNCHANGED <<backend, now, verifyStore, mu, pc, ret, hist, swept, attempt, consumedBy, cookie,
                   minted, sse, granted, sessions, devVars,
                   proof, mail>>

\* GET /entry/:token by client c with entry token i (scanned from the QR
\* code, or followed from the login redirect), found being the answer of the
\* access list for the session's uid: checkProvisioning (always passes),
\* DecodeEntryJWT, verifyAuth, userExists.  A request without a valid
\* session gets the 401 error page and then AuthLogout; a session whose uid
\* is not found gets AuthLogout and a return that writes nothing, which gin
\* sends as 200 with an empty body.
GetEntry(c, i, found) ==
    /\ etok[i] # Absent
    /\ used' = IF DecodeEntryJWT(EntryToken(i), backend, store, now).err = "nil"
               THEN used \cup {i} ELSE used
    /\ LET d == DecodeEntryJWT(EntryToken(i), backend, store, now)
           ck == cookie[c]
           valid == ck # NoCookie /\ DecodeAuthJWT(ck, backend, d.st, now).err = "nil"
           base == [NoLast EXCEPT !.op = "entry", !.tok = i, !.dec = "entry",
                                  !.decConsumed = (d.st # store),
                                  !.hadLive = (store[EntryNonce(i)] # Absent),
                                  !.replay = (i \in granted)]
       IN IF d.err # "nil"
          THEN /\ last' = [base EXCEPT !.status = 401, !.err = d.err]
               /\ store' = d.st
               /\ UNCHANGED <<cookie, granted>>
          ELSE IF ~valid
          THEN /\ last' = [base EXCEPT !.status = 401, !.err = "AUTH"]
               /\ store' = d.st
               /\ cookie' = [cookie EXCEPT ![c] = NoCookie]
               /\ UNCHANGED granted
          ELSE IF ~found
          THEN /\ last' = [base EXCEPT !.status = 200, !.err = "NOT_LISTED", !.had = TRUE]
               /\ store' = Consume(backend, d.st, ck.jti, now).st
               /\ cookie' = [cookie EXCEPT ![c] = NoCookie]
               /\ UNCHANGED granted
          ELSE /\ last' = [base EXCEPT !.status = 200, !.had = TRUE, !.listed = TRUE]
               /\ store' = d.st
               /\ granted' = granted \cup {i}
               /\ UNCHANGED cookie
    /\ UNCHANGED <<backend, now, verifyStore, mu, pc, ret, hist, swept, attempt, consumedBy, minted,
                   sse, entryTokens, etok, sessions, devVars,
                   proof, mail>>

\* GET /auth/status behind AuthMiddleware: verifyAuth only
AuthStatus(c) ==
    /\ LET ck == cookie[c]
           d == IF ck = NoCookie THEN [err |-> "http: named cookie not present", st |-> store]
                ELSE DecodeAuthJWT(ck, backend, store, now)
       IN /\ store' = d.st
          /\ last' = [NoLast EXCEPT !.op = "authStatus",
                            !.status = IF d.err = "nil" THEN 200 ELSE 401,
                            !.dec = IF ck = NoCookie THEN "none" ELSE "auth",
                            !.decConsumed = (d.st # store)]
    /\ UNCHANGED <<backend, now, verifyStore, mu, pc, ret, hist, swept, attempt, consumedBy, cookie,
                   minted, sse, entryTokens, etok, auxVars>>

\* GET /auth/renew behind AuthMiddleware: verifyAuth, then
\* renewAuth(c, uid, true); a panic is answered 500 by gin's Recovery
AuthRenew(c) ==
    /\ LET ck == cookie[c]
           d == IF ck = NoCookie THEN [err |-> "http: named cookie not present", st |-> store]
                ELSE DecodeAuthJWT(ck, backend, store, now)
           base == [NoLast EXCEPT !.op = "renew", !.had = (d.err = "nil"), !.old = ck,
                                  !.dec = IF ck = NoCookie THEN "none" ELSE "auth"]
       IN IF d.err # "nil"
          THEN /\ last' = [base EXCEPT !.status = 401]
               /\ store' = d.st
               /\ UNCHANGED <<cookie, minted, sessions>>
          ELSE LET r == renewAuth(ck, ck.uid, backend, d.st, now) IN
               IF r.panic
               THEN /\ last' = [base EXCEPT !.status = 500, !.err = "PANIC"]
                    /\ store' = d.st
                    /\ UNCHANGED <<cookie, minted, sessions>>
               ELSE /\ last' = [base EXCEPT !.status = 200, !.session = r.issued,
                                            !.rotated = (r.cookie.jti # ck.jti)]
                    /\ store' = r.st
                    /\ cookie' = [cookie EXCEPT ![c] = r.cookie]
                    /\ minted' = IF r.issued THEN minted \cup {c} ELSE minted
                    /\ sessions' = IF r.issued THEN Issue(sessions, c) ELSE sessions
    /\ UNCHANGED <<backend, now, verifyStore, mu, pc, ret, hist, swept, attempt, consumedBy, sse,
                   entryTokens, etok, granted, devVars,
                   used, mail, proof>>

\* POST /auth/logout behind AuthMiddleware: AuthLogout consumes the session's
\* nonce and clears the cookie
AuthLogout(c) ==
    /\ cookie[c] # NoCookie
    /\ LET ck == cookie[c]
           d == DecodeAuthJWT(ck, backend, store, now)
       IN /\ store' = IF d.err = "nil" THEN Consume(backend, d.st, ck.jti, now).st ELSE d.st
          /\ last' = [NoLast EXCEPT !.op = "logout", !.status = 303, !.dec = "auth",
                            !.decConsumed = (d.st # store), !.old = ck]
    /\ cookie' = [cookie EXCEPT ![c] = NoCookie]
    /\ UNCHANGED <<backend, now, verifyStore, mu, pc, ret, hist, swept, attempt, consumedBy, minted,
                   sse, entryTokens, etok, auxVars>>

\* --------------------------------------------------------- email provider
\* emailSentCache.m[email] for the one address (a time or Absent), where each
\* request stands, the cleanup goroutines still asleep (each known by the
\* time its request recorded; those of one second count as one), and how
\* many requests were accepted in each second (ghost)
NoMail == [cache |-> Absent, pc |-> [p \in Procs |-> "idle"], tasks |-> {},
           accepted |-> [t \in 0 .. MaxTime |-> 0]]

\* POST / of NewEmailProvider, first half: under RLock, read lastSent; 429
\* when the address was mailed less than EMAIL_SEND_INTERVAL ago
MailCheck(p) ==
    /\ mail.pc[p] = "idle"
    /\ IF mail.cache # Absent /\ now - mail.cache < EmailSendInterval
       THEN /\ last' = [NoLast EXCEPT !.op = "mail", !.status = 429]
            /\ UNCHANGED mail
       ELSE /\ mail' = [mail EXCEPT !.pc[p] = "passed"]
            /\ UNCHANGED last
    /\ UNCHANGED <<backend, now, storeVars, verifyStore, attempt, consumedBy, cookie, minted,
                   sse, entryTokens, etok, granted, sessions, used, proof, devVars>>

\* POST / of NewEmailProvider, second half: under Lock, record time.Now(),
\* start the goroutine that will delete the entry, Unlock, answer 200
MailRecord(p) ==
    /\ mail.pc[p] = "passed"
    /\ mail' = [mail EXCEPT !.pc[p] = "idle", !.cache = now,
                            !.tasks = @ \cup {now},
                            !.accepted[now] = Min(2, @ + 1)]
    /\ last' = [NoLast EXCEPT !.op = "mail", !.status = 200]
    /\ UNCHANGED <<backend, now, storeVars, verifyStore, attempt, consumedBy, cookie, minted,
                   sse, entryTokens, etok, granted, sessions, used, proof, devVars>>

\* the goroutine started by the request that recorded k: after its sleep of
\* EMAIL_SEND_INTERVAL (or longer) it deletes the address from the cache
MailCleanup(k) ==
    /\ k \in mail.tasks
    /\ now >= k + EmailSendInterval
    /\ mail' = [mail EXCEPT !.tasks = @ \ {k}, !.cache = Absent]
    /\ UNCHANGED <<backend, now, storeVars, verifyStore, attempt, consumedBy, cookie, minted,
                   sse, entryTokens, etok, last, granted, sessions, used, proof, devVars>>

\* ----------------------------------------------- device provisioning, handlers
\* POST /api/provision/register {device_id} from address ip, with a device
\* id that passes VerifyDeviceID.  An error of getProvisioning is added to
\* c.Errors and the handler goes on; ErrorHandler answers with the status
\* of the last error unless a body was written already.
PostRegister(d, ip) ==
    /\ LET g == getProvisioning(devices, d, ip)
           base == [NoLast EXCEPT !.op = "register", !.dev = d, !.ip = ip,
                                  !.before = devices[d]]
       IN /\ devices' = g.devs
          /\ last' =
               IF g.dev.ip # ip
               THEN [base EXCEPT !.status = GetErrorStatus("ErrClientIPMismatch"),
                                 !.err = StopCode("ErrClientIPMismatch")]
               ELSE IF g.dev.status = DeviceStatusApproved
               THEN [base EXCEPT !.status = 200, !.err = "approved"]
               ELSE IF g.dev.status = DeviceStatusPending
               THEN [base EXCEPT !.status = 202, !.err = "pending"]
               ELSE [base EXCEPT !.status = GetErrorStatus("ErrDeviceRejected"),
                                 !.err = StopCode("ErrDeviceRejected")]
    /\ UNCHANGED <<backend, now, storeVars, verifyStore, attempt, consumedBy, cookie, minted,
                   sse, entryTokens, etok, granted, sessions, approved_devices,
                   used, mail, proof>>

\* device approve <device_id> <entry_id>; status is the exit code
DeviceApprove(d, e) ==
    /\ LET base == [NoLast EXCEPT !.op = "approve", !.dev = d, !.entry = e,
                                  !.before = devices[d]]
       IN IF devices[d] = NoDevice
          THEN /\ last' = [base EXCEPT !.status = 1, !.err = "Device not found"]
               /\ UNCHANGED devVars
          ELSE IF devices[d].status = DeviceStatusApproved
          THEN /\ last' = [base EXCEPT !.status = 0, !.err = "already approved"]
               /\ UNCHANGED devVars
          ELSE LET u == SQLProvider_UpdateDeviceStatus(devices, d, DeviceStatusApproved)
                   a == SQLProvider_CreateApprovedDevice(approved_devices, d, e)
               IN /\ devices' = u.devs
                  /\ approved_devices' = a.appr
                  /\ last' = IF a.err # "nil"
                             THEN [base EXCEPT !.status = 1, !.err = a.err]
                             ELSE [base EXCEPT !.status = 0]
    /\ UNCHANGED <<backend, now, storeVars, verifyStore, attempt, consumedBy, cookie, minted,
                   sse, entryTokens, etok, granted, sessions,
                   used, mail, proof>>

\* device reject <device_id>
DeviceReject(d) ==
    /\ LET base == [NoLast EXCEPT !.op = "reject", !.dev = d, !.before = devices[d]]
       IN IF devices[d] = NoDevice
          THEN /\ last' = [base EXCEPT !.status = 1, !.err = "Device not found"]
               /\ UNCHANGED devices
          ELSE IF devices[d].status = DeviceStatusRejected
          THEN /\ last' = [base EXCEPT !.status = 0, !.err = "already rejected"]
               /\ UNCHANGED devices
          ELSE /\ devices' = SQLProvider_UpdateDeviceStatus(devices, d, DeviceStatusRejected).devs
               /\ last' = [base EXCEPT !.status = 0]
    /\ UNCHANGED <<backend, now, storeVars, verifyStore, attempt, consumedBy, cookie, minted,
                   sse, entryTokens, etok, granted, sessions, approved_devices,
                   used, mail, proof>>

\* device revoke <device_id> <entry_id>: the relation is marked revoked; the
\* row of the device is not touched
DeviceRevoke(d, e) ==
    /\ LET base == [NoLast EXCEPT !.op = "revoke", !.dev = d, !.entry = e,
                                  !.before = devices[d]]
       IN IF ~SQLProvider_GetApprovedDevice(approved_devices, d, e)
          THEN /\ last' = [base EXCEPT !.status = 1, !.err = "not approved or already revoked"]
               /\ UNCHANGED approved_devices
          ELSE /\ approved_devices' = SQLProvider_RevokeApprovedDevice(approved_devices, d, e).appr
               /\ last' = [base EXCEPT !.status = 0]
    /\ UNCHANGED <<backend, now, storeVars, verifyStore, attempt, consumedBy, cookie, minted,
                   sse, entryTokens, etok, granted, sessions, devices,
                   used, mail, proof>>

\* the clock: a second passes once every open stream has served its tick and
\* has no closed clientGone left to act on (the select wakes up at once)
Tick ==
    /\ now < MaxTime
    /\ sse.st = "open" => sse.ticked /\ ~sse.gone
    /\ now' = now + 1
    /\ sse' = IF sse.st = "open" THEN [sse EXCEPT !.ticked = FALSE] ELSE sse
    /\ UNCHANGED <<backend, storeVars, verifyStore, attempt, consumedBy, cookie, minted,
                   entryTokens, etok, last, auxVars>>

\* everything but the browsers' cookies
InitBase ==
    /\ backend \in Backends
    /\ now = 0
    /\ store = EmptyStore
    /\ verifyStore = EmptyStore
    /\ mu = Free
    /\ pc = [p \in Procs |-> Idle]
    /\ ret = NoRet
    /\ hist = [n \in Nonces |-> 0]
    /\ swept = {}
    /\ attempt = Absent
    /\ consumedBy = "none"
    /\ minted = {}
    /\ sse = NoSse
    /\ entryTokens = 0
    /\ etok = [i \in EntryTokens |-> Absent]
    /\ last = NoLast
    /\ granted = {}
    /\ used = {}
    /\ proof = {}
    /\ mail = NoMail
    /\ sessions = [c \in Clients |-> 0]
    /\ devices = [d \in DeviceIDs |-> NoDevice]
    /\ approved_devices = [d \in DeviceIDs |-> [e \in Entries |-> "none"]]

Init ==
    /\ InitBase
    /\ cookie = [c \in Clients |-> NoCookie]

\* a browser may hold the session of another user, from an earlier login
RenewInit ==
    /\ InitBase
    /\ cookie \in [Clients -> {NoCookie, NewAuthClaims(OtherUser)}]

StoreNext ==
    \/ \E p \in Procs, n \in Keys, ttl \in 0 .. MaxTTL : MemPut(p, n, ttl)
    \/ \E p \in Procs, n \in Keys : MemConsumeCall(p, n)
    \/ \E p \in Procs : MemConsumeRead(p)
    \/ \E p \in Procs : MemConsumeFinish(p)
    \/ \E p \in Procs, n \in Keys : MemExists(p, n)
    \/ MemExpire
    \/ \E p \in Procs, n \in Keys, ttl \in 0 .. MaxTTL : SqlPut(p, n, ttl)
    \/ \E p \in Procs, n \in Keys : SqlConsume(p, n)
    \/ \E p \in Procs, n \in Keys : SqlExists(p, n)
    \/ SqlExpire
    \/ Tick

StoreSpec == Init /\ [][StoreNext]_vars

\* the status stream next to the two ways of confirming the attempt, with the
\* client's disconnect as a step of its own
StreamNext ==
    \/ PostLogin
    \/ \E c \in Clients, otpOK \in BOOLEAN : PostVerify(c, otpOK)
    \/ \E c \in Clients, aud \in Audiences : GetVerifyToken(c, aud)
    \/ SseOpen
    \/ SseTick
    \/ SseClientGone
    \/ SseGone
    \/ MemExpire
    \/ SqlExpire
    \/ Tick

StreamSpec == Init /\ [][StreamNext]_vars

\* the email provider: concurrent requests for one address, the cleanup
\* goroutines, the clock
ThrottleNext ==
    \/ \E p \in Procs : MailCheck(p)
    \/ \E p \in Procs : MailRecord(p)
    \/ \E k \in 0 .. MaxTime : MailCleanup(k)
    \/ Tick

ThrottleSpec == Init /\ [][ThrottleNext]_vars

\* the login flow: handlers, the stream, the janitor of the main store, the clock
Next ==
    \/ PostLogin
    \/ \E c \in Clients, otpOK \in BOOLEAN : PostVerify(c, otpOK)
    \/ \E c \in Clients, aud \in Audiences : GetVerifyToken(c, aud)
    \/ SseOpen
    \/ SseTick
    \/ SseGone
    \/ \E c \in Clients : AuthStatus(c)
    \/ \E c \in Clients : AuthRenew(c)
    \/ \E c \in Clients : AuthLogout(c)
    \/ MemExpire
    \/ SqlExpire
    \/ Tick

Spec == Init /\ [][Next]_vars

\* the kiosk: login by one-time code, the QR poll with its cached token,
\* scans of issued tokens,
\* the janitor of the main store, the clock
EntryNext ==
    \/ PostLogin
    \/ \E c \in Clients, otpOK \in BOOLEAN : PostVerify(c, otpOK)
    \/ \E d \in DeviceIDs : GetQrJson(d)
    \/ \E c \in Clients, i \in EntryTokens, found \in BOOLEAN : GetEntry(c, i, found)
    \/ MemExpire
    \/ SqlExpire
    \/ Tick

EntrySpec == Init /\ [][EntryNext]_vars

\* logins by one-time code and the session routes, on browsers that may hold
\* another user's session
RenewNext ==
    \/ PostLogin
    \/ \E c \in Clients, otpOK \in BOOLEAN : PostVerify(c, otpOK)
    \/ \E c \in Clients : AuthStatus(c)
    \/ \E c \in Clients : AuthRenew(c)
    \/ \E c \in Clients : AuthLogout(c)
    \/ MemExpire
    \/ SqlExpire
    \/ Tick

RenewSpec == RenewInit /\ [][RenewNext]_vars

\* provisioning: registrations from two addresses, the admin's commands, and
\* the kiosk's QR poll
DeviceNext ==
    \/ \E d \in DeviceIDs, ip \in IPs : PostRegister(d, ip)
    \/ \E d \in DeviceIDs, e \in Entries : DeviceApprove(d, e)
    \/ \E d \in DeviceIDs : DeviceReject(d)
    \/ \E d \in DeviceIDs, e \in Entries : DeviceRevoke(d, e)
    \/ \E d \in DeviceIDs : GetQrJson(d)

DeviceSpec == Init /\ [][DeviceNext]_vars

\* -------------------------------------------------------------- claims
\* C1: between two Puts of a nonce at most one Consume of it returns
\* (true, nil); a Consume that finds the nonce stored with its TTL not yet
\* elapsed returns (true, nil), so among racing calls exactly one does; and
\* every Consume returns (true, nil), (false, NonceMissing) or
\* (false, NonceExpired).
C1_AtMostOnceConsume ==
    /\ \A n \in Nonces : hist[n] <= 1
    /\ ret.op = "Consume" =>
          /\ <<ret.ok, ret.err>> \in {<<TRUE, "nil">>, <<FALSE, "NonceMissing">>,
                                      <<FALSE, "NonceExpired">>}
          /\ ret.live => ret.ok
          /\ ret.ok => hist[ret.n] = 1

\* two callers raced for the same stored nonce: the one that waited for the
\* lock found the nonce missing after the other had consumed it
C1_Witness ==
    /\ ret.op = "Consume" /\ ret.contended
    /\ ~ret.ok /\ ret.err = "NonceMissing"
    /\ hist[ret.n] = 1

\* C7 (as claimed): no Consume returns (true, nil), and no Exists returns
\* true, for a nonce whose TTL has elapsed.
C7_ExpiredIsAbsent ==
    (ret.op \in {"Consume", "Exists"} /\ ret.elapsed) => ~ret.ok

\* the loser of a race between the OTP path and the hand-off path: a request
\* that decoded its token (and carried the right OTP) after the other path's
\* login() had consumed the jti
CrossPathAfterConsume ==
    /\ last.op \in {"verifyOtp", "verifyLink"}
    /\ last.aud \in {JWT_AUDIENCE_EMAIL_OTP, JWT_AUDIENCE_EMAIL_LOGIN}
    /\ last.used = (IF last.op = "verifyOtp" THEN "handoff" ELSE "otp")
    /\ last.err \notin {"INVALID_OTP", "DECODE_FAILED", "VERIFY_TOKEN_EXPIRED"}

\* C2 (as claimed): when the OTP submission and the hand-off of one login
\* attempt both run, the one that comes second fails with AUTH_INVALID_NONCE
\* and is given no session, so the attempt mints one session cookie at most.
C2_RaceLoserRejected ==
    CrossPathAfterConsume =>
        /\ last.err = "AUTH_INVALID_NONCE"
        /\ ~last.session
        /\ Cardinality(minted) <= 1

\* C3 (as claimed): once the shared jti was consumed through one path, the
\* other path's token still decodes, and the consume attempted for it
\* fails with ErrInvalidNonce.
C3_PairedConsumeInvalidNonce ==
    (CrossPathAfterConsume /\ last.cerr # "none") => last.cerr = "ErrInvalidNonce"

\* C4 (as claimed): POST /auth/email/verify with the otpclaim of an attempt
\* that already logged in via OTP, and the right OTP, answers
\* 400 VERIFY_TOKEN_USED and sets no session cookie.
C4_OtpReplayRejected ==
    (/\ last.op = "verifyOtp"
     /\ last.used = "otp"
     /\ last.err \notin {"INVALID_OTP", "DECODE_FAILED"})
    => (last.status = 400 /\ last.err = "VERIFY_TOKEN_USED" /\ ~last.session)

\* C5 (as claimed): every poll of the cached entry token answers with a
\* token; it is the cached one while that one's exp > now, and a newly
\* issued one when there was none or its exp <= now.
C5_GetOrRotate ==
    last.op = "qr" =>
        /\ last.status = 200
        /\ last.hadLive => last.tok = last.prev
        /\ ~last.hadLive => (last.tok # last.prev /\ entryTokens = last.tok)

\* C6 (as claimed): decoding a token of any variant, or a session cookie,
\* leaves the nonce store as it was.
C6_VerifyNeverConsumes ==
    last.dec # "none" => ~last.decConsumed

\* C8 (as claimed): whenever the stream writes a confirmed frame, the jti of
\* the login attempt is still in the main nonce store.
C8_ConfirmedImpliesJtiStored ==
    (last.op = "sseTick" /\ last.err = "confirmed") => last.hadLive

\* C9 (as claimed): a click on the emailed link after the OTP path has
\* logged in and consumed the jti is answered as used, sets no session
\* cookie and leaves no confirmation marker.
C9_LinkAfterOtpInvalid ==
    (/\ last.op = "verifyLink"
     /\ last.aud = JWT_AUDIENCE_EMAIL_LINK
     /\ last.used = "otp"
     /\ last.err # "VERIFY_TOKEN_EXPIRED")
    => (last.err = "VERIFY_TOKEN_USED" /\ ~last.session /\ ~last.marker)

C11_ExpiredFrameOnExpiry ==
    (last.op = "sseTick" /\ sse.ticked /\ sse.st = "open" /\ last.err = "pending")
    => now < attempt

\* C12: an entry token grants access at most once: a GET /entry/:token that
\* presents a token an earlier request was answered 200 for is answered 401,
\* and its decode does not succeed.
C12_EntryTokenOneShot ==
    (last.op = "entry" /\ last.replay) => (last.status = 401 /\ last.err \notin {"nil", "AUTH"})

\* a token that was granted once is presented again, by a client that still
\* holds a valid session, and is turned down
C12_Witness ==
    /\ last.op = "entry" /\ last.replay /\ last.status = 401
    /\ \E c \in Clients : cookie[c] # NoCookie

\* C13 (as claimed): GET /auth/renew on a request that carries a valid
\* session cookie is answered 200 with a new cookie whose jti differs from
\* the prior one.
C13_RenewRotatesJti ==
    (last.op = "renew" /\ last.had) => (last.status = 200 /\ last.session /\ last.rotated)

\* C14 (as claimed): a response that issues a session leaves some client
\* with a cookie whose claim has its own jti and an exp, and that jti is in
\* the nonce store.
C14_NewSessionStoresJti ==
    last.session =>
        \E c \in Clients : /\ cookie[c] # NoCookie
                            /\ cookie[c].jti # EmptyID
                            /\ cookie[c].exp # NoExp
                            /\ store[cookie[c].jti] # Absent

\* the sessions issued to client c whose token verifyAuth accepts now
ActiveSessions(c) ==
    IF DecodeAuthJWT(NewAuthClaims(Email), backend, store, now).err = "nil"
    THEN sessions[c] ELSE 0

C16_RevokedDeviceFailsCheck ==
    (last.op = "qr" /\ approved_devices[last.dev][Entry1] = "revoked") => last.status = 403

\* C17: a registration of a known device id from an address other than the
\* stored client_ip is answered 403 IP_MISMATCH and leaves the stored row
\* (client_ip, status) as it was.
C17_IpMismatchKeepsRecord ==
    (last.op = "register" /\ last.before # NoDevice /\ last.before.ip # last.ip) =>
        /\ last.status = 403
        /\ last.err = "IP_MISMATCH"
        /\ devices[last.dev] = last.before

\* a device registered from A registers again from B and is turned down
C17_Witness ==
    /\ last.op = "register" /\ last.before.ip = "A" /\ last.ip = "B"
    /\ last.status = 403 /\ devices[last.dev].ip = "A"

\* C18 (as claimed): after approve(device_id, entry_id) of an existing device
\* has exited 0, the device is approved and a non-revoked relation for
\* (device_id, entry_id) exists.
C18_ApprovePostcondition ==
    (last.op = "approve" /\ last.before # NoDevice /\ last.status = 0) =>
        /\ devices[last.dev].status = DeviceStatusApproved
        /\ approved_devices[last.dev][last.entry] = "active"

\* C20 (as claimed): a GET /entry/:token with a valid token by a client whose
\* session is valid but whose uid the access list does not find is not
\* answered with a success status and grants nothing.
C20_UnlistedUserRejected ==
    (last.op = "entry" /\ last.had /\ ~last.listed) =>
        /\ last.status \notin 200 .. 299
        /\ last.tok \notin granted

\* C19 (as claimed): a POST /auth/email/login for the address within the send
\* interval of an earlier one that was answered 200 is answered 429 and
\* issues no token pair.
C19_SecondLoginThrottled ==
    (last.op = "login" /\ last.repeat) => last.status = 429

\* C21 (as claimed): a GET /entry/:token whose token decodes but whose
\* request carries no valid session is answered with a redirect (to the
\* login page).
C21_NoSessionRedirects ==
    (last.op = "entry" /\ last.err = "AUTH") => last.status \in 300 .. 399

\* C22 (as claimed): a call of ConsumeClaimNonce returns nil or
\* ErrInvalidNonce, and nothing else: a jti that is absent from the store or
\* was used before is reported as ErrInvalidNonce.
C22_ConsumeClaimNonceInvalidNonce ==
    last.cerr # "none" => last.cerr \in {"nil", "ErrInvalidNonce"}

\* C23 (as claimed): a Put with ttl <= 0 fails with the ttl error and stores
\* nothing, on the in-memory and on the SQL backend.
C23_PutRejectsNonPositiveTtl ==
    (ret.op = "Put" /\ ret.badTtl) => (~ret.ok /\ ret.err = "ttl must be > 0")

C26_UidMismatchIsNoOp ==
    (last.op = "verifyOtp" /\ last.mismatch) => (last.status = 200 /\ ~last.session)

\* C27 (as claimed): uniqueness of (device_id, entry_id) counts non-revoked
\* rows only: an approve that reaches the INSERT for a pair without a
\* non-revoked row leaves the pair with one non-revoked row, also when a
\* revoked row for the pair exists.
C27_UniquenessIgnoresRevoked ==
    (/\ last.op = "approve"
     /\ last.before # NoDevice
     /\ last.before.status # DeviceStatusApproved)
    => approved_devices[last.dev][last.entry] = "active"

C29_SweepNeverDoubleCounts ==
    [][/\ \A n \in Nonces :
             hist'[n] > hist[n] => (store[n] # Absent /\ store'[n] = Absent /\ n \notin swept)
       /\ \A n \in swept' : hist'[n] = 0 /\ store'[n] = Absent]_vars

C29_Witness ==
    /\ backend = "memory"
    /\ ret.op = "Consume" /\ ~ret.ok /\ ret.contended /\ ret.n \in swept
    /\ \E p \in Procs : pc[p].st = "found" /\ pc[p].n \in swept /\ pc[p].lexp = Absent

\* C30: once the client of an open status stream has disconnected, the loop
\* takes no ticker case any more: it writes no further frame, its next step
\* is the return of the clientGone case.
C30_NoFrameAfterDisconnect ==
    [][(sse.st = "open" /\ sse.gone) => ~(~sse.ticked /\ sse'.ticked)]_vars

\* C31 (as claimed): a Put with ttl > 0 succeeds on every backend, whether the
\* nonce is new or already in the store.
C31_PutInsertsOrRefreshes ==
    (ret.op = "Put" /\ ~ret.badTtl) => (ret.ok /\ ret.err = "nil")

\* C32 (as claimed): the token a display poll answers with still has its
\* nonce in the nonce store for as long as it is unexpired, so that a scanner
\* can redeem it whatever polls came before.
C32_PollKeepsDisplayedTokenRedeemable ==
    (last.op = "qr" /\ last.status = 200 /\ last.tok # 0 /\ now < etok[last.tok])
        => store[EntryNonce(last.tok)] # Absent

\* the entry flow with a display that keeps polling: the kiosk page requests
\* qr.json again and again, so a poll that is possible is eventually served
EntryLiveSpec == EntrySpec /\ WF_vars(\E d \in DeviceIDs : GetQrJson(d))

\* C33 (as claimed): the display never gets stuck: whenever a poll has
\* failed, a later poll is answered with a token again.
C33_PollRecovers ==
    (last.op = "qr" /\ last.status = 500) ~> (last.op = "qr" /\ last.status = 200)

\* C34: a session is minted for the attempt, and the stream hands out the
\* email_login URL, only after the right OTP was posted with the otp token
\* or the emailed link was clicked; the URL only after the click.  Holding
\* the otp token alone, with or without an open stream, yields neither.
C34_NoSessionWithoutProof ==
    /\ minted # {} => proof # {}
    /\ sse.url => "link" \in proof
    /\ consumedBy = "handoff" => "link" \in proof

\* the otp token alone: a wrong code was posted, the stream is open and has
\* answered a tick with pending
C34_Witness ==
    /\ proof = {} /\ minted = {} /\ ~sse.url
    /\ sse.st = "open" /\ sse.ticked /\ now > attempt - LinkTTL
    /\ last.op = "verifyOtp" /\ last.err = "INVALID_OTP"

\* C35 (as claimed): once a logout, or a renewal that issued a new session,
\* has been answered, verifyAuth no longer accepts the session token the
\* request carried.
C35_OldSessionTokenRejected ==
    (/\ last.old # NoCookie
     /\ last.op = "logout" \/ (last.op = "renew" /\ last.session))
    => verifyAuth(last.old, backend, store, now) # "nil"

\* C36 (as claimed): once POST /verify has accepted the one-time code of the
\* attempt for Email and called login, the cookie of the browser that
\* posted it is a session of Email, whatever cookie it carried before.
C36_SessionIdentifiesVerifiedAddress ==
    (last.op = "verifyOtp" /\ last.who # "none")
        => (cookie[last.who] # NoCookie /\ cookie[last.who].uid = Email)

\* C37 (as claimed): a Put the store turned down leaves MemoryStore.mu free,
\* so that the calls after it can take the lock.
C37_FailedPutReleasesLock ==
    (ret.op = "Put" /\ ~ret.ok) => mu # Leaked

\* C38 (as claimed): whatever the interleaving of the requests for one
\* address and of the cleanup goroutines, two accepted requests are at
\* least EMAIL_SEND_INTERVAL apart, and a cleanup goroutine deletes only the
\* entry its own request recorded.
C38_ThrottleHoldsUnderConcurrency ==
    [][/\ \A t \in 0 .. MaxTime : mail'.accepted[t] <= 1
       /\ \A t1, t2 \in 0 .. MaxTime :
             (t1 < t2 /\ t2 - t1 < EmailSendInterval)
                => ~(mail'.accepted[t1] > 0 /\ mail'.accepted[t2] > 0)
       /\ \A k \in mail.tasks :
             (k \notin mail'.tasks /\ mail.cache # Absent /\ mail'.cache = Absent)
                => mail.cache = k]_vars

\* C39 (as claimed): after an approve attempt on an existing device, however
\* it ended, the device has status approved only if the (device_id, entry_id)
\* relation that was asked for exists unrevoked.
C39_ApproveAllOrNothing ==
    (last.op = "approve" /\ last.before # NoDevice /\ devices[last.dev].status = DeviceStatusApproved)
        => approved_devices[last.dev][last.entry] = "active"

\* the login flow without a guarantee that anybody opens the status stream:
\* time passes and the janitors that were started keep running
StreamLiveSpec == StreamSpec /\ WF_vars(Tick) /\ WF_vars(MemExpire) /\ WF_vars(SqlExpire)

====
